---- MODULE Spec2Model ----
(***************************************************************************)
(* PyTracer (src/pytracer/__init__.py): a process-wide "tracing enabled"   *)
(* flag, the setup of the root logger, child loggers, two decorators and   *)
(* a conditional message helper, all on top of the logging backend.        *)
(*                                                                         *)
(* The backend is modelled by what the module does to it: the registry of  *)
(* loggers that logging.getLogger fills, the handlers and the level of the *)
(* root logger, and the sequence of calls made to logger.debug /           *)
(* logger.error / logger.log (what a mocked logger would have recorded).   *)
(***************************************************************************)
EXTENDS Integers, Sequences, FiniteSets, TLC

(* ------------------------------ bounds -------------------------------- *)
\* most handlers the root logger holds before setup_tracing is no longer called
MaxHandlers == 4

(* ------------------------- program constants -------------------------- *)
DEBUG == 10
INFO == 20
ERROR == 40
\* the five severities of the backend: debug < info < warning < error < critical
Levels == {DEBUG, INFO, 30, ERROR, 50}
\* the levels setup_tracing is called with
SetupLevels == {DEBUG, INFO}

None == "None"
PARENT_LOG_NAME == <<"pytracer">>

\* logger names are dotted names, kept as the sequence of their components
LoggerNames == {PARENT_LOG_NAME, <<"test_logger">>}
Suffixes == {"child"}
LogFiles == {None, "logfile.log"}

\* the decorated functions, the arguments they are called with and what they can
\* do: return a value, or raise. A function runs one invocation at a time; what
\* the function itself or another thread does meanwhile are the other actions.
Funcs == {"test_func"}
Args == {<<>>}
Values == {"Hello, World!", None}
ValueError == [type |-> "ValueError", base |-> "Exception", text |-> "Test exception"]
KeyboardInterrupt == [type |-> "KeyboardInterrupt", base |-> "BaseException", text |-> ""]
Raisable == {ValueError, KeyboardInterrupt}

VARIABLES
    ENABLE_TRACE,   \* __ENABLE_TRACE__
    loggers,        \* backend: names for which a logger exists
    handlers,       \* backend: handlers of the root logger, in order of addHandler
    rootLevel,      \* backend: level of the root logger (0 is NOTSET)
    wrapped,        \* per function: how it is decorated
    frame,          \* per function: the invocation of its inner_wrapper
    lastCall,       \* the last operation: its arguments, its result, the calls it
                    \* made to logging.getLogger and to the logger's methods
    lastToggle,     \* the last of enable_trace / disable_trace / setup_tracing
    setups          \* the log_file of every setup_tracing call so far

vars == <<ENABLE_TRACE, loggers, handlers, rootLevel, wrapped, frame,
          lastCall, lastToggle, setups>>

backend == <<loggers, handlers, rootLevel>>
decorators == <<wrapped, frame>>

(* ------------------------------ helpers ------------------------------- *)
\* logging.getLogger(name): fetches the logger of that name, creating it if absent
getLogger(registry, name) == registry \cup {name}

\* f"{parent_logger_name}.{child_log_suffix}"
ChildName(parent_logger_name, child_log_suffix) ==
    parent_logger_name \o <<child_log_suffix>>

StreamHandler == [kind |-> "StreamHandler", file |-> None]
FileHandler(log_file) == [kind |-> "FileHandler", file |-> log_file]

\* variant: the console handler is left out when a file handler is added
NewHandlersSkipConsole(log_file) ==
    IF log_file # None THEN <<FileHandler(log_file)>> ELSE <<StreamHandler>>

\* the handlers one call of setup_tracing adds to the root logger
NewHandlers(log_file) ==
    IF log_file # None THEN <<StreamHandler, FileHandler(log_file)>>
                       ELSE <<StreamHandler>>

\* variant: the boundary included
StackInfoFromInfo(level) == level >= INFO

\* stack = level > logging.INFO
StackInfo(level) == level > INFO

\* a call of logger.debug / logger.error / logger.log
LogRecord(logger, level, msg, stack) ==
    [logger |-> logger, level |-> level, msg |-> msg, stack_info |-> stack]

\* `except Exception`: KeyboardInterrupt and the like derive from BaseException only
IsException(e) == e.base = "Exception"

\* str(e)
Str(e) == e.text

Returned(v) == [kind |-> "return", val |-> v]
Raised(e) == [kind |-> "raise", val |-> e]
NoOutcome == [kind |-> "none", val |-> None]

Call(op, args, result, lookups, emits) ==
    [op |-> op, args |-> args, result |-> result, lookups |-> lookups,
     emits |-> emits]

NotWrapped == [kind |-> "none", logger |-> <<>>]
Idle == [pc |-> "idle", flag0 |-> FALSE, enabled |-> FALSE, args |-> <<>>,
         func |-> NoOutcome, out |-> NoOutcome, invoked |-> 0, logged |-> <<>>]

(* ------------------------------- Init --------------------------------- *)
Init ==
    /\ ENABLE_TRACE = FALSE
    /\ loggers = {}
    /\ handlers = <<>>
    /\ rootLevel = 0
    /\ wrapped = [f \in Funcs |-> NotWrapped]
    /\ frame = [f \in Funcs |-> Idle]
    /\ lastCall = Call("import", <<>>, NoOutcome, <<>>, <<>>)
    /\ lastToggle = "none"
    /\ setups = <<>>

(* ------------------------- flag operations ---------------------------- *)
is_trace_enabled ==
    /\ lastCall' = Call("is_trace_enabled", <<>>, Returned(ENABLE_TRACE), <<>>, <<>>)
    /\ UNCHANGED <<ENABLE_TRACE, backend, decorators, lastToggle, setups>>

disable_trace ==
    /\ ENABLE_TRACE' = FALSE
    /\ lastToggle' = "disable_trace"
    /\ lastCall' = Call("disable_trace", <<>>, Returned(None), <<>>, <<>>)
    /\ UNCHANGED <<backend, decorators, setups>>

\* variant: enable_trace toggles the flag instead of setting it
enable_trace_flips ==
    /\ ENABLE_TRACE' = ~ENABLE_TRACE
    /\ lastToggle' = "enable_trace"
    /\ lastCall' = Call("enable_trace", <<>>, Returned(None), <<>>, <<>>)
    /\ UNCHANGED <<backend, decorators, setups>>

enable_trace ==
    /\ ENABLE_TRACE' = TRUE
    /\ lastToggle' = "enable_trace"
    /\ lastCall' = Call("enable_trace", <<>>, Returned(None), <<>>, <<>>)
    /\ UNCHANGED <<backend, decorators, setups>>

setup_tracing(log_file, level) ==
    /\ Len(handlers) + 2 <= MaxHandlers
    /\ ENABLE_TRACE' = TRUE
    /\ lastToggle' = "setup_tracing"
    /\ setups' = Append(setups, log_file)
    /\ loggers' = getLogger(loggers, PARENT_LOG_NAME)
    /\ rootLevel' = level
    /\ handlers' = handlers \o NewHandlers(log_file)
    /\ lastCall' = Call("setup_tracing", <<log_file, level>>,
                        Returned(PARENT_LOG_NAME), <<PARENT_LOG_NAME>>, <<>>)
    /\ UNCHANGED decorators

(* --------------------------- add_child_log ---------------------------- *)
\* variant: the guard of add_child_log is missing
NeverRefused(flag) == FALSE

\* if not is_trace_enabled(): raise RuntimeError(...)
Refused(flag) == ~flag

add_child_log(child_log_suffix, parent_logger_name) ==
    /\ IF Refused(ENABLE_TRACE)
       THEN /\ lastCall' = Call("add_child_log",
                                <<child_log_suffix, parent_logger_name>>,
                                Raised("RuntimeError"), <<>>, <<>>)
            /\ UNCHANGED loggers
       ELSE LET child_logger_name == ChildName(parent_logger_name, child_log_suffix)
            IN /\ loggers' = getLogger(loggers, child_logger_name)
               /\ lastCall' = Call("add_child_log",
                                   <<child_log_suffix, parent_logger_name>>,
                                   Returned(child_logger_name),
                                   <<child_logger_name>>, <<>>)
    /\ UNCHANGED <<ENABLE_TRACE, handlers, rootLevel, decorators, lastToggle, setups>>

(* ------------------------------ trace_msg ----------------------------- *)
\* variant: trace_msg does not look at the flag
AlwaysTraced(flag) == TRUE

\* if __ENABLE_TRACE__:
Traced(flag) == flag

trace_msg(msg, logger_name, level) ==
    /\ IF Traced(ENABLE_TRACE)
       THEN /\ loggers' = getLogger(loggers, logger_name)
            /\ lastCall' = Call("trace_msg", <<msg, logger_name, level>>,
                                Returned(None), <<logger_name>>,
                                <<LogRecord(logger_name, level, <<msg>>,
                                            StackInfo(level))>>)
       ELSE /\ lastCall' = Call("trace_msg", <<msg, logger_name, level>>,
                                Returned(None), <<>>, <<>>)
            /\ UNCHANGED loggers
    /\ UNCHANGED <<ENABLE_TRACE, handlers, rootLevel, decorators, lastToggle, setups>>

(* --------------------------- trace_decorator -------------------------- *)
\* trace_decorator(logger_name)(func): the logger is resolved once, here
trace_decorator(logger_name, func) ==
    /\ wrapped[func] = NotWrapped
    /\ loggers' = getLogger(loggers, logger_name)
    /\ wrapped' = [wrapped EXCEPT ![func] = [kind |-> "trace", logger |-> logger_name]]
    /\ lastCall' = Call("trace_decorator", <<logger_name, func>>, Returned(None),
                        <<logger_name>>, <<>>)
    /\ UNCHANGED <<ENABLE_TRACE, handlers, rootLevel, frame, lastToggle, setups>>

\* variant: the return is logged unconditionally
LogsReturnAlways(enabled, flag) == TRUE

\* variant: the flag is read again after func has returned
LogsReturnRereads(enabled, flag) == flag

\* the second `if enabled:` of inner_wrapper, reached when func has returned;
\* flag is __ENABLE_TRACE__ at that moment
LogsReturn(enabled, flag) == enabled

\* variant: inner_wrapper forgets to return the result
WrapperResultDropped(result) == Returned(None)

\* return result
WrapperResult(result) == Returned(result)

\* inner_wrapper up to the point where func runs
trace_inner_call(func, args) ==
    /\ wrapped[func].kind = "trace"
    /\ frame[func].pc # "in_func"
    /\ LET enabled == ENABLE_TRACE
           logger == wrapped[func].logger
           pre == LogRecord(logger, DEBUG, <<"Calling function", func, args>>, FALSE)
           emits == IF enabled THEN <<pre>> ELSE <<>>
       IN /\ frame' = [frame EXCEPT ![func] =
                 [pc |-> "in_func", flag0 |-> ENABLE_TRACE, enabled |-> enabled,
                  args |-> args, func |-> NoOutcome, out |-> NoOutcome,
                  invoked |-> 1, logged |-> emits]]
          /\ lastCall' = Call("inner_wrapper", <<func>>, NoOutcome, <<>>, emits)
    /\ UNCHANGED <<ENABLE_TRACE, backend, wrapped, lastToggle, setups>>

\* func returned result: inner_wrapper from there to its return
trace_inner_return(func, result) ==
    /\ wrapped[func].kind = "trace"
    /\ frame[func].pc = "in_func"
    /\ LET logger == wrapped[func].logger
           post == LogRecord(logger, DEBUG, <<"Function returned", func, result>>, FALSE)
           emits == IF LogsReturn(frame[func].enabled, ENABLE_TRACE)
                    THEN <<post>> ELSE <<>>
       IN /\ frame' = [frame EXCEPT ![func].pc = "done",
                                    ![func].func = Returned(result),
                                    ![func].out = WrapperResult(result),
                                    ![func].logged = @ \o emits]
          /\ lastCall' = Call("inner_wrapper", <<func>>, WrapperResult(result),
                              <<>>, emits)
    /\ UNCHANGED <<ENABLE_TRACE, backend, wrapped, lastToggle, setups>>

\* func raised e: nothing in inner_wrapper catches it
trace_inner_raise(func, e) ==
    /\ wrapped[func].kind = "trace"
    /\ frame[func].pc = "in_func"
    /\ frame' = [frame EXCEPT ![func].pc = "done",
                              ![func].func = Raised(e),
                              ![func].out = Raised(e)]
    /\ lastCall' = Call("inner_wrapper", <<func>>, Raised(e), <<>>, <<>>)
    /\ UNCHANGED <<ENABLE_TRACE, backend, wrapped, lastToggle, setups>>

(* ---------------------- trace_exceptions_decorator -------------------- *)
trace_exceptions_decorator(logger_name, func) ==
    /\ wrapped[func] = NotWrapped
    /\ loggers' = getLogger(loggers, logger_name)
    /\ wrapped' = [wrapped EXCEPT ![func] =
                       [kind |-> "exceptions", logger |-> logger_name]]
    /\ lastCall' = Call("trace_exceptions_decorator", <<logger_name, func>>,
                        Returned(None), <<logger_name>>, <<>>)
    /\ UNCHANGED <<ENABLE_TRACE, handlers, rootLevel, frame, lastToggle, setups>>

\* inner_wrapper enters the try block and calls func
exc_inner_call(func, args) ==
    /\ wrapped[func].kind = "exceptions"
    /\ frame[func].pc # "in_func"
    /\ frame' = [frame EXCEPT ![func] =
           [pc |-> "in_func", flag0 |-> ENABLE_TRACE, enabled |-> FALSE,
            args |-> args, func |-> NoOutcome, out |-> NoOutcome,
            invoked |-> 1, logged |-> <<>>]]
    /\ lastCall' = Call("inner_wrapper", <<func>>, NoOutcome, <<>>, <<>>)
    /\ UNCHANGED <<ENABLE_TRACE, backend, wrapped, lastToggle, setups>>

\* return func(*args, **kwargs)
exc_inner_return(func, result) ==
    /\ wrapped[func].kind = "exceptions"
    /\ frame[func].pc = "in_func"
    /\ frame' = [frame EXCEPT ![func].pc = "done",
                              ![func].func = Returned(result),
                              ![func].out = Returned(result)]
    /\ lastCall' = Call("inner_wrapper", <<func>>, Returned(result), <<>>, <<>>)
    /\ UNCHANGED <<ENABLE_TRACE, backend, wrapped, lastToggle, setups>>

\* variant: the exception is logged only while tracing is enabled
CaughtWhenTracing(e, flag) == IsException(e) /\ flag

\* `except Exception as e:` whether the handler takes e; flag is __ENABLE_TRACE__
\* at that moment, which the handler does not read
Caught(e, flag) == IsException(e)

\* func raised e
exc_inner_raise(func, e) ==
    /\ wrapped[func].kind = "exceptions"
    /\ frame[func].pc = "in_func"
    /\ LET logger == wrapped[func].logger
           rec == LogRecord(logger, ERROR, <<"Exception in", func, Str(e)>>, FALSE)
           emits == IF Caught(e, ENABLE_TRACE) THEN <<rec>> ELSE <<>>
       IN /\ frame' = [frame EXCEPT ![func].pc = "done",
                                    ![func].func = Raised(e),
                                    ![func].out = Raised(e),
                                    ![func].logged = emits]
          /\ lastCall' = Call("inner_wrapper", <<func>>, Raised(e), <<>>, emits)
    /\ UNCHANGED <<ENABLE_TRACE, backend, wrapped, lastToggle, setups>>

(* ------------------------------ the system ---------------------------- *)
Next ==
    \/ is_trace_enabled
    \/ disable_trace
    \/ enable_trace
    \/ \E log_file \in LogFiles, level \in SetupLevels : setup_tracing(log_file, level)
    \/ \E s \in Suffixes, p \in LoggerNames : add_child_log(s, p)
    \/ \E n \in LoggerNames, l \in Levels : trace_msg("Test message", n, l)
    \/ \E n \in LoggerNames, f \in Funcs : trace_decorator(n, f)
    \/ \E f \in Funcs, a \in Args : trace_inner_call(f, a)
    \/ \E f \in Funcs, v \in Values : trace_inner_return(f, v)
    \/ \E f \in Funcs, e \in Raisable : trace_inner_raise(f, e)
    \/ \E n \in LoggerNames, f \in Funcs : trace_exceptions_decorator(n, f)
    \/ \E f \in Funcs, a \in Args : exc_inner_call(f, a)
    \/ \E f \in Funcs, v \in Values : exc_inner_return(f, v)
    \/ \E f \in Funcs, e \in Raisable : exc_inner_raise(f, e)

Spec == Init /\ [][Next]_vars

(* ------------------------------ the claims ---------------------------- *)
F == CHOOSE f \in Funcs : TRUE
IsDebug(rec) == rec.level = DEBUG
TracedDone(f) == wrapped[f].kind = "trace" /\ frame[f].pc = "done"
GuardedDone(f) == wrapped[f].kind = "exceptions" /\ frame[f].pc = "done"
FlagAfter(toggle) == toggle \in {"enable_trace", "setup_tracing"}

\* C1: the flag starts false and is always what the last of enable_trace,
\* disable_trace and setup_tracing set (true for enable and setup, false for
\* disable, whatever it was before); is_trace_enabled returns the flag and
\* changes nothing.
C1_LastToggleDecides ==
    /\ [](/\ ENABLE_TRACE = FlagAfter(lastToggle)
          /\ lastCall.op = "is_trace_enabled"
                 => lastCall.result = Returned(FlagAfter(lastToggle)))
    /\ [][lastCall'.op = "is_trace_enabled"
              => UNCHANGED <<ENABLE_TRACE, backend, decorators, lastToggle, setups>>]_vars

\* is_trace_enabled has just answered false, after a setup_tracing and then a
\* disable_trace
C1_Witness ==
    /\ lastCall.op = "is_trace_enabled"
    /\ lastCall.result = Returned(FALSE)
    /\ lastToggle = "disable_trace"
    /\ setups # <<>>

\* C2 as stated: every finished call of a traced function made two debug
\* emissions if the flag was true when it started and none if it was false, and
\* invoked the function once.
C2_TwoEmissionsEveryCall ==
    \A f \in Funcs : TracedDone(f) =>
        /\ frame[f].invoked = 1
        /\ Len(frame[f].logged) = (IF frame[f].flag0 THEN 2 ELSE 0)
        /\ \A i \in DOMAIN frame[f].logged : IsDebug(frame[f].logged[i])

\* C2, amended: a finished call of a traced function that started with the flag
\* true made two debug emissions (before and after the function) if the function
\* returned, and only the first of them if the function raised; a call that
\* started with the flag false made none; the function was invoked once.
C2_TwoEmissionsWhenReturning ==
    \A f \in Funcs : TracedDone(f) =>
        /\ frame[f].invoked = 1
        /\ Len(frame[f].logged) =
               (IF ~frame[f].flag0 THEN 0
                ELSE IF frame[f].func.kind = "return" THEN 2 ELSE 1)
        /\ \A i \in DOMAIN frame[f].logged :
               /\ IsDebug(frame[f].logged[i])
               /\ frame[f].logged[i].msg[1] =
                      (IF i = 1 THEN "Calling function" ELSE "Function returned")

\* a traced call that started with the flag true has raised, with one emission
C2_Witness ==
    /\ TracedDone(F)
    /\ frame[F].flag0
    /\ frame[F].func.kind = "raise"
    /\ Len(frame[F].logged) = 1

\* C3: the flag as it was when an invocation of a traced function started decides
\* both of its logs: the call is logged iff the flag was true then, and when the
\* function has returned the return is logged iff the call was, whatever the flag
\* has become meanwhile; each invocation reads the flag anew.
C3_FlagAtStartGoverns ==
    \A f \in Funcs : (wrapped[f].kind = "trace" /\ frame[f].pc # "idle") =>
        LET logged == frame[f].logged
            callLogged == \E i \in DOMAIN logged : logged[i].msg[1] = "Calling function"
            returnLogged == \E i \in DOMAIN logged : logged[i].msg[1] = "Function returned"
        IN /\ callLogged <=> frame[f].flag0
           /\ (frame[f].pc = "done" /\ frame[f].func.kind = "return")
                  => (returnLogged <=> callLogged)
           /\ frame[f].pc = "in_func" => Len(logged) <= 1

\* the function has just returned from a call that started with the flag true,
\* the flag was cleared while it ran, and the return was logged
C3_Witness ==
    /\ lastCall.op = "inner_wrapper"
    /\ TracedDone(F)
    /\ frame[F].func.kind = "return"
    /\ frame[F].flag0
    /\ ~ENABLE_TRACE
    /\ Len(frame[F].logged) = 2

\* C4: when a function guarded by trace_exceptions_decorator raises an error E (an
\* Exception), the wrapper made exactly one error-level emission whose message
\* holds str(E) and the caller gets E, whatever the flag; when the function
\* returns, the caller gets its result and nothing was emitted.
C4_ErrorLoggedOnceAndReraised ==
    \A f \in Funcs : GuardedDone(f) =>
        /\ frame[f].invoked = 1
        /\ (frame[f].func.kind = "raise" /\ IsException(frame[f].func.val)) =>
               /\ Len(frame[f].logged) = 1
               /\ frame[f].logged[1].level = ERROR
               /\ \E i \in DOMAIN frame[f].logged[1].msg :
                      frame[f].logged[1].msg[i] = Str(frame[f].func.val)
               /\ frame[f].out.kind = "raise"
               /\ frame[f].out.val = frame[f].func.val
        /\ frame[f].func.kind = "return" =>
               /\ frame[f].logged = <<>>
               /\ frame[f].out.kind = "return"
               /\ frame[f].out.val = frame[f].func.val

\* a guarded function has just raised ValueError while the flag was false
C4_Witness ==
    /\ lastCall.op = "inner_wrapper"
    /\ GuardedDone(F)
    /\ frame[F].out = Raised(ValueError)
    /\ ~ENABLE_TRACE
    /\ Len(frame[F].logged) = 1

\* C5: add_child_log called with the flag false raises the not-enabled error,
\* makes no getLogger call, creates no logger and leaves the flag and the root
\* logger's handlers as they were; called with the flag true it does not raise.
C5_ChildRefusedWhenDisabled ==
    [][lastCall'.op = "add_child_log" =>
          IF ~ENABLE_TRACE
          THEN /\ lastCall'.result.kind = "raise"
               /\ lastCall'.result.val = "RuntimeError"
               /\ lastCall'.lookups = <<>>
               /\ UNCHANGED <<ENABLE_TRACE, loggers, handlers>>
          ELSE /\ lastCall'.result.kind = "return"
               /\ lastCall'.result.val = ChildName(lastCall'.args[2], lastCall'.args[1])
      ]_vars

\* add_child_log has just been refused, with handlers attached by an earlier setup
C5_Witness ==
    /\ lastCall.op = "add_child_log"
    /\ lastCall.result.kind = "raise"
    /\ handlers # <<>>
    /\ ~ENABLE_TRACE

\* C6: trace_msg called with the flag false makes no getLogger call, creates no
\* logger and emits nothing; called with the flag true it makes exactly one
\* emission, on the logger named logger_name, at the level given.
C6_MessageOnlyWhenEnabled ==
    [][lastCall'.op = "trace_msg" =>
          IF ~ENABLE_TRACE
          THEN /\ lastCall'.lookups = <<>>
               /\ lastCall'.emits = <<>>
               /\ UNCHANGED <<ENABLE_TRACE, backend>>
          ELSE /\ Len(lastCall'.emits) = 1
               /\ lastCall'.emits[1].logger = lastCall'.args[2]
               /\ lastCall'.emits[1].level = lastCall'.args[3]
               /\ lastCall'.lookups = <<lastCall'.args[2]>>
      ]_vars

\* trace_msg has just been called with the flag false, after a setup
C6_Witness ==
    /\ lastCall.op = "trace_msg"
    /\ ~ENABLE_TRACE
    /\ setups # <<>>
    /\ lastCall.emits = <<>>

RECURSIVE SinksOf(_)
SinksOf(calls) ==
    IF calls = <<>> THEN <<>>
    ELSE SinksOf(SubSeq(calls, 1, Len(calls) - 1))
             \o (IF calls[Len(calls)] = None THEN <<"StreamHandler">>
                 ELSE <<"StreamHandler", "FileHandler">>)

\* C7: the root logger's handlers are what the setup_tracing calls so far added,
\* call after call and with nothing merged: one console handler for a call
\* without log_file, a console and a file handler for a call with one.
C7_SinksAccumulate ==
    /\ Len(handlers) = Len(SinksOf(setups))
    /\ \A i \in DOMAIN handlers : handlers[i].kind = SinksOf(setups)[i]

\* two setup_tracing calls with a log_file have left four handlers
C7_Witness ==
    /\ Len(setups) = 2
    /\ \A i \in DOMAIN setups : setups[i] # None
    /\ Len(handlers) = 4

\* C8: after setup_tracing is called without log_file, the root logger has
\* exactly one handler, the console handler.
C8_OnlyConsoleWithoutLogFile ==
    (lastCall.op = "setup_tracing" /\ lastCall.args[1] = None)
        => handlers = <<StreamHandler>>

\* C9: a finished call of a traced function gives its caller what the function
\* itself gave: the same return value (or the same raised object), whatever the
\* flag was when the call started.
C9_ResultPassedThrough ==
    \A f \in Funcs : TracedDone(f) =>
        /\ frame[f].out.kind = frame[f].func.kind
        /\ frame[f].out.val = frame[f].func.val

\* a traced call that was logged has returned the function's value
C9_Witness ==
    /\ TracedDone(F)
    /\ frame[F].flag0
    /\ frame[F].func = Returned("Hello, World!")
    /\ frame[F].out = Returned("Hello, World!")

\* C10: an emission of trace_msg asks for the stack trace iff its level is above
\* info: warning (30), error (40) and critical (50) do, debug and info do not.
C10_StackAboveInfo ==
    (lastCall.op = "trace_msg" /\ lastCall.emits # <<>>) =>
        (lastCall.emits[1].stack_info <=> lastCall.args[3] \in {30, 40, 50})

\* trace_msg has just emitted at info, the boundary, without a stack trace
C10_Witness ==
    /\ lastCall.op = "trace_msg"
    /\ lastCall.emits # <<>>
    /\ lastCall.args[3] = INFO
    /\ ~lastCall.emits[1].stack_info

====
